---- MODULE Spec2Model ----
(***************************************************************************)
(* Model of anvil's sampling core (src/anvil/sample.py):                   *)
(*   sample_batch          - one batch of Metropolis-Hastings steps        *)
(*   chain_autocorrelation - integrated autocorrelation of the history     *)
(*   sample                - batching and sub-sampling of the chain        *)
(*                                                                         *)
(* Conventions.  Python containers are functions over 0..n-1, so that the  *)
(* indices of the model are the indices of the code.  A configuration is   *)
(* identified by <<batch, k>>: candidate k drawn in batch number `batch`.  *)
(* Real numbers in [0,1] (the acceptance condition and the uniform draw)   *)
(* are fixed-point integers in thousandths; a log-ratio is a float that is *)
(* either an integer value or NaN.                                         *)
(***************************************************************************)
EXTENDS Integers, Sequences, FiniteSets, TLC

VARIABLES
    pc, err,
    \* sample_batch
    batch_size, current_state, phi, log_ratio, history, chain_indices,
    i, j, condition, us, chain,
    \* chain_autocorrelation
    N, autocorrelations, consecutive_rejections, pos, rho,
    integrated_autocorrelation, sample_interval,
    \* sample
    target_length, dec_samp_per_batch, Nbatches, actual_length,
    decorrelated_chain, accepted, batch, raw, writes

vars == <<pc, err, batch_size, current_state, phi, log_ratio, history,
          chain_indices, i, j, condition, us, chain, N, autocorrelations,
          consecutive_rejections, pos, rho, integrated_autocorrelation,
          sample_interval, target_length, dec_samp_per_batch, Nbatches,
          actual_length, decorrelated_chain, accepted, batch, raw, writes>>

batchVars == <<batch_size, current_state, phi, log_ratio, history,
               chain_indices, i, j, condition, us, chain>>

autoVars == <<N, autocorrelations, consecutive_rejections, pos, rho,
              integrated_autocorrelation>>

sampleVars == <<target_length, dec_samp_per_batch, Nbatches, actual_length,
                decorrelated_chain, accepted, batch, raw, writes>>

---------------------------------------------------------------------------
(* Bounds of the exploration *)

MaxBatch == 3
MaxLogRatio == 2
MaxN == 5
MaxTarget == 4
MaxInterval == 3

---------------------------------------------------------------------------
(* Values *)

None == <<>>

Thermalised == <<-1, 0>>

Uninit == <<-2, 0>>

PyLen(f) == Cardinality(DOMAIN f)

\* 1.0 in thousandths
One == 1000

\* largest integer argument math.exp accepts without OverflowError
ExpMaxArg == 709

Fin(v) == [nan |-> FALSE, v |-> v]

NaN == [nan |-> TRUE, v |-> 0]

\* float subtraction
Sub(a, b) == IF a.nan \/ b.nan THEN NaN ELSE Fin(a.v - b.v)

\* float comparisons: every comparison with NaN is false
Lt(a, b) == ~a.nan /\ ~b.nan /\ a.v < b.v

Le(a, b) == ~a.nan /\ ~b.nan /\ a.v <= b.v

RECURSIVE PyMinFrom(_, _, _)
\* builtin min(iterable): the candidate replaces the current one when `item < cur`
PyMinFrom(f, k, cur) ==
    IF k \notin DOMAIN f THEN cur
    ELSE PyMinFrom(f, k + 1, IF Lt(f[k], cur) THEN f[k] ELSE cur)

PyMin(f) == PyMinFrom(f, 1, f[0])

RECURSIVE PyMaxFrom(_, _, _)
\* builtin max(iterable): the candidate replaces the current one when `item > cur`
PyMaxFrom(f, k, cur) ==
    IF k \notin DOMAIN f THEN cur
    ELSE PyMaxFrom(f, k + 1, IF Lt(cur, f[k]) THEN f[k] ELSE cur)

PyMax(f) == PyMaxFrom(f, 1, f[0])

\* math.exp raises OverflowError for arguments above ExpMaxArg
ExpOverflows(d) == ~d.nan /\ d.v > ExpMaxArg

\* floor(1000 * e^d) for an integer d <= ExpMaxArg; a draw u = k/1000 satisfies
\* u <= e^d exactly when k <= floor(1000 * e^d).  Values above 1.0 are only
\* read through min(1, .), so 2718 stands for all of them.
ExpFix(d) ==
    CASE d >= 1 -> 2718
      [] d = 0 -> 1000
      [] d = -1 -> 367
      [] d = -2 -> 135
      [] d = -3 -> 49
      [] d = -4 -> 18
      [] d = -5 -> 6
      [] d = -6 -> 2
      [] OTHER -> 0

\* isfinite(exp(float(min(log_ratio) - max(log_ratio))))
SpreadFinite(lr) == ~Sub(PyMin(lr), PyMax(lr)).nan

\* min(1, exp(float(d))): exp(nan) is nan and builtin min(1, nan) is 1
MinOneExp(d) ==
    IF d.nan THEN One
    ELSE IF ExpFix(d.v) < One THEN ExpFix(d.v) ELSE One

\* values np.random.uniform() can return, in thousandths: the smallest, the
\* one that ties with exp(-1), and the largest
UDraws == {0, 367, 999}

\* values a log-ratio takes in the exploration
LogRatios == {Fin(v) : v \in 0..MaxLogRatio} \cup {Fin(ExpMaxArg + 1), NaN}

---------------------------------------------------------------------------
(* sample_batch *)

ZerosBoolLong(n) == [k \in 0..n |-> FALSE]

\* torch.zeros(n, dtype=torch.bool)
ZerosBool(n) == [k \in 0..(n - 1) |-> FALSE]

\* torch.zeros(n, dtype=torch.long)
ZerosLong(n) == [k \in 0..(n - 1) |-> 0]

\* phi after lines 50-55: fresh candidates, candidate 0 overwritten by the
\* current state when one is given
Candidates(bs, cs, b) ==
    [k \in 0..bs |-> IF k = 0 /\ cs # None THEN cs ELSE <<b, k>>]

\* the exception lines 49-62 raise, or "none"
SetupError(bs, cs, lr) ==
    IF bs + 1 < 0 THEN "RuntimeError"
    ELSE IF cs # None /\ bs + 1 = 0 THEN "IndexError"
    ELSE IF bs < 0 THEN "RuntimeError"
    ELSE IF ~SpreadFinite(lr) THEN "ValueError"
    ELSE "none"

LogDiffSwapped(lr, ci, pj) == Sub(lr[pj], lr[ci])

\* log_ratio[i] - log_ratio[j]
LogDiff(lr, ci, pj) == Sub(lr[ci], lr[pj])

RejectedAsProposal(st) ==
    [st EXCEPT !.chain_indices[st.j - 1] = st.j, !.j = st.j + 1]

\* lines 68-70
Accepted(st) ==
    [st EXCEPT !.chain_indices[st.j - 1] = st.j,
               !.history[st.j - 1] = TRUE,
               !.i = st.j,
               !.j = st.j + 1]

\* line 72
Rejected(st) ==
    [st EXCEPT !.chain_indices[st.j - 1] = st.i, !.j = st.j + 1]

\* one iteration of the loop of lines 65-72 with uniform draw u
WalkStep(st, lr, u) ==
    LET d == LogDiff(lr, st.i, st.j) IN
    IF ExpOverflows(d) THEN [st EXCEPT !.err = "OverflowError"]
    ELSE LET c == MinOneExp(d)
             s == [st EXCEPT !.condition = c, !.us = Append(st.us, u)]
         IN IF u <= c THEN Accepted(s) ELSE Rejected(s)

\* phi[chain_indices, :]
Gather(ph, ci) == [k \in DOMAIN ci |-> ph[ci[k]]]

WalkState ==
    [i |-> i, j |-> j, chain_indices |-> chain_indices, history |-> history,
     condition |-> condition, us |-> us, err |-> err]

\* lines 49-64: draw the candidates, check the spread, set up the walk
Call ==
    /\ pc = "call"
    /\ \E lr \in [0..batch_size -> LogRatios] :
          LET e == SetupError(batch_size, current_state, lr) IN
          /\ err' = e
          /\ pc' = IF e = "none" THEN "walk" ELSE "error"
          /\ IF e = "none"
             THEN /\ phi' = Candidates(batch_size, current_state, batch)
                  /\ log_ratio' = lr
                  /\ history' = ZerosBool(batch_size)
                  /\ chain_indices' = ZerosLong(batch_size)
             ELSE UNCHANGED <<phi, log_ratio, history, chain_indices>>
    /\ i' = 0
    /\ j' = 1
    /\ UNCHANGED <<batch_size, current_state, condition, us, chain>>
    /\ UNCHANGED <<autoVars, sample_interval, sampleVars>>

\* lines 65-72: one proposal
Step ==
    /\ pc = "walk"
    /\ j <= batch_size
    /\ \E u \in UDraws :
          LET r == WalkStep(WalkState, log_ratio, u) IN
          /\ i' = r.i
          /\ j' = r.j
          /\ chain_indices' = r.chain_indices
          /\ history' = r.history
          /\ condition' = r.condition
          /\ us' = r.us
          /\ err' = r.err
          /\ pc' = IF r.err = "none" THEN "walk" ELSE "error"
    /\ UNCHANGED <<batch_size, current_state, phi, log_ratio, chain>>
    /\ UNCHANGED <<autoVars, sample_interval, sampleVars>>

\* line 74
Return ==
    /\ pc = "walk"
    /\ j > batch_size
    /\ chain' = Gather(phi, chain_indices)
    /\ pc' = "returned"
    /\ UNCHANGED <<err, batch_size, current_state, phi, log_ratio, history,
                   chain_indices, i, j, condition, us>>
    /\ UNCHANGED <<autoVars, sample_interval, sampleVars>>

BatchIdle ==
    /\ phi = <<>>
    /\ log_ratio = <<>>
    /\ history = <<>>
    /\ chain_indices = <<>>
    /\ i = 0
    /\ j = 0
    /\ condition = 0
    /\ us = <<>>
    /\ chain = <<>>

AutoIdle ==
    /\ N = 0
    /\ autocorrelations = <<>>
    /\ consecutive_rejections = 0
    /\ pos = 0
    /\ rho = <<>>
    /\ integrated_autocorrelation = <<0, 1>>

SampleIdle ==
    /\ target_length = 0
    /\ dec_samp_per_batch = 0
    /\ Nbatches = 0
    /\ actual_length = 0
    /\ decorrelated_chain = <<>>
    /\ accepted = 0
    /\ batch = 0
    /\ raw = <<>>
    /\ writes = <<>>

InitBatch ==
    /\ pc = "call"
    /\ err = "none"
    /\ batch_size \in -2..MaxBatch
    /\ current_state \in {None, Thermalised}
    /\ BatchIdle
    /\ AutoIdle
    /\ sample_interval = 0
    /\ SampleIdle

NextBatch == Call \/ Step \/ Return

SpecBatch == InitBatch /\ [][NextBatch]_vars

---------------------------------------------------------------------------
(* sample_batch as one call, for its callers *)

RECURSIVE WalkAll(_, _, _, _)
\* the whole loop of lines 65-72, proposal j using draw useq[j]
WalkAll(st, lr, useq, bs) ==
    IF st.err # "none" \/ st.j > bs THEN st
    ELSE WalkAll(WalkStep(st, lr, useq[st.j]), lr, useq, bs)

\* sample_batch(loaded_model, action, bs, cs) in batch number b, the model and
\* the action giving log_ratio lr and the generator giving the draws useq
SampleBatch(bs, cs, b, lr, useq) ==
    LET e == SetupError(bs, cs, lr) IN
    IF e # "none"
    THEN [err |-> e, phi |-> <<>>, chain_indices |-> <<>>, chain |-> <<>>,
          history |-> <<>>]
    ELSE LET st0 == [i |-> 0, j |-> 1, chain_indices |-> ZerosLong(bs),
                     history |-> ZerosBool(bs), condition |-> 0, us |-> <<>>,
                     err |-> "none"]
             st == WalkAll(st0, lr, useq, bs)
             ph == Candidates(bs, cs, b)
         IN [err |-> st.err, phi |-> ph, chain_indices |-> st.chain_indices,
             chain |-> Gather(ph, st.chain_indices), history |-> st.history]

\* log-ratios and draws explored in the batches run by chain_autocorrelation:
\* with them the walk produces every accept/reject history
DiagLogRatios == {Fin(0), Fin(1)}

DiagDraws == {0, 999}

---------------------------------------------------------------------------
(* Rational numbers <<numerator, denominator>>, denominator > 0, in lowest   *)
(* terms: the arithmetic of lines 168-173 is modelled exactly.               *)

RECURSIVE GCD(_, _)
GCD(a, b) == IF b = 0 THEN a ELSE GCD(b, a % b)

Abs(a) == IF a < 0 THEN -a ELSE a

Rat(n, d) ==
    LET g == GCD(Abs(n), d) IN <<n \div g, d \div g>>

RatAdd(a, b) == Rat(a[1] * b[2] + b[1] * a[2], a[2] * b[2])

RatEq(a, b) == a[1] * b[2] = b[1] * a[2]

RatLe(a, b) == a[1] * b[2] <= b[1] * a[2]

Half == Rat(1, 2)

RECURSIVE RatSumFrom(_, _)
RatSumFrom(r, t) ==
    IF t \notin DOMAIN r THEN Rat(0, 1) ELSE RatAdd(r[t], RatSumFrom(r, t + 1))

\* torch.sum over a vector indexed from 0
RatSum(r) == RatSumFrom(r, 0)

\* math.ceil
Ceil(a) == -((-a[1]) \div a[2])

---------------------------------------------------------------------------
(* chain_autocorrelation *)

AddRunShort(ac, c) ==
    [t \in DOMAIN ac |-> IF 1 <= t /\ t <= c THEN ac[t] + (c - t) ELSE ac[t]]

\* autocorrelations[1 : c + 1] += torch.arange(c, 0, -1)
AddRun(ac, c) ==
    [t \in DOMAIN ac |-> IF 1 <= t /\ t <= c THEN ac[t] + (c - t + 1) ELSE ac[t]]

\* autocorrelations / torch.arange(N + 1, 0, -1)
Normalised(ac, n) == [t \in DOMAIN ac |-> Rat(ac[t], n + 1 - t)]

IntegratedNoHalf(r) == RatSum(r)

\* 0.5 + torch.sum(...)
Integrated(r) == RatAdd(Half, RatSum(r))

\* ceil(2 * integrated_autocorrelation)
Interval(ia) == Ceil(Rat(2 * ia[1], ia[2]))

\* lines 144-151: the diagnostic batch and the accumulators
Diagnose ==
    /\ pc = "diagnose"
    /\ \E lr \in [0..batch_size -> DiagLogRatios],
          useq \in [1..batch_size -> DiagDraws] :
          LET r == SampleBatch(batch_size, current_state, 0, lr, useq) IN
          /\ err' = r.err
          /\ pc' = IF r.err = "none" THEN "scan" ELSE "error"
          /\ history' = r.history
    /\ N' = PyLen(history')
    /\ autocorrelations' = [t \in 0..N' |-> 0]
    /\ consecutive_rejections' = 0
    /\ pos' = 0
    /\ UNCHANGED <<batch_size, current_state, phi, log_ratio, chain_indices,
                   i, j, condition, us, chain>>
    /\ UNCHANGED <<rho, integrated_autocorrelation, sample_interval, sampleVars>>

\* lines 153-161: one entry of the history
Scan ==
    /\ pc = "scan"
    /\ pos < N
    /\ IF history[pos] = TRUE
       THEN /\ autocorrelations' =
                  IF consecutive_rejections > 0
                  THEN AddRun(autocorrelations, consecutive_rejections)
                  ELSE autocorrelations
            /\ consecutive_rejections' = 0
       ELSE /\ consecutive_rejections' = consecutive_rejections + 1
            /\ UNCHANGED autocorrelations
    /\ pos' = pos + 1
    /\ UNCHANGED <<pc, err, batchVars, N, rho, integrated_autocorrelation,
                   sample_interval, sampleVars>>

\* lines 162-165: the run that ends the history
Flush ==
    /\ pc = "scan"
    /\ pos = N
    /\ autocorrelations' =
          IF consecutive_rejections > 0
          THEN AddRun(autocorrelations, consecutive_rejections)
          ELSE autocorrelations
    /\ pc' = "integrate"
    /\ UNCHANGED <<err, batchVars, N, consecutive_rejections, pos, rho,
                   integrated_autocorrelation, sample_interval, sampleVars>>

\* lines 168-170
Integrate ==
    /\ pc = "integrate"
    /\ rho' = Normalised(autocorrelations, N)
    /\ integrated_autocorrelation' = Integrated(rho')
    /\ pc' = "interval"
    /\ UNCHANGED <<err, batchVars, N, autocorrelations, consecutive_rejections,
                   pos, sample_interval, sampleVars>>

\* lines 173-178
ReturnInterval ==
    /\ pc = "interval"
    /\ sample_interval' = Interval(integrated_autocorrelation)
    /\ pc' = "auto_returned"
    /\ UNCHANGED <<err, batchVars, autoVars, sampleVars>>

\* the diagnostic batch has 10000 proposals in the code (line 144); the scan
\* is explored on batches of 1..MaxN proposals
InitAuto ==
    /\ pc = "diagnose"
    /\ err = "none"
    /\ batch_size \in 1..MaxN
    /\ current_state = Thermalised
    /\ BatchIdle
    /\ AutoIdle
    /\ sample_interval = 0
    /\ SampleIdle

NextAuto == Diagnose \/ Scan \/ Flush \/ Integrate \/ ReturnInterval

SpecAuto == InitAuto /\ [][NextAuto]_vars

---------------------------------------------------------------------------
(* sample *)

\* the batch size of line 214
max_batch == 10000

\* ceil(a / b) for b # 0
CeilDiv(a, b) == IF b > 0 THEN -((-a) \div b) ELSE -(a \div (-b))

FloorDiv(a, b) == IF b > 0 THEN a \div b ELSE (-a) \div (-b)

\* min(target_length, 10000)
FirstBatchSize(t) == IF max_batch < t THEN max_batch ELSE t

DecSampPerBatchPlusOne(t, si) == FloorDiv(FirstBatchSize(t), si) + 1

\* line 215
DecSampPerBatch(t, si) == CeilDiv(FirstBatchSize(t), si)

\* line 216
BatchSize(t, si) == DecSampPerBatch(t, si) * si

NumBatchesFloor(t, dec) == FloorDiv(t, dec)

\* line 217
NumBatches(t, dec) == CeilDiv(t, dec)

\* the exception lines 214-222 raise, or "none"
PlanError(t, si) ==
    IF si = 0 THEN "ZeroDivisionError"
    ELSE IF DecSampPerBatch(t, si) = 0 THEN "ZeroDivisionError"
    ELSE IF DecSampPerBatch(t, si) * NumBatches(t, DecSampPerBatch(t, si)) < 0
         THEN "RuntimeError"
    ELSE "none"

\* torch.empty((n, size_in)): n rows of arbitrary content
Empty(n) == [k \in 0..(n - 1) |-> Uninit]

StrideFromEnd(c, step) ==
    [k \in 0..(CeilDiv(PyLen(c), step) - 1) |-> c[k * step + step - 1]]

\* c[::step] for step >= 1
Stride(c, step) ==
    [k \in 0..(CeilDiv(PyLen(c), step) - 1) |-> c[k * step]]

\* dc[start : start + n, :] = rows, the slice clipped to dc as Python does
SliceAssign(dc, start, n, rows) ==
    [k \in DOMAIN dc |->
        IF start <= k /\ k < start + n THEN rows[k - start] ELSE dc[k]]

\* number of rows of dc[start : start + n]
SliceLen(dc, start, n) ==
    Cardinality({k \in DOMAIN dc : start <= k /\ k < start + n})

\* torch.sum(batch_history)
CountTrue(h) == Cardinality({k \in DOMAIN h : h[k] = TRUE})

\* c followed by d
Concat(c, d) ==
    [k \in 0..(PyLen(c) + PyLen(d) - 1) |->
        IF k < PyLen(c) THEN c[k] ELSE d[k - PyLen(c)]]

\* log-ratios explored in the batches run by sample: increasing, decreasing,
\* alternating, and one whose first difference is beyond the range of exp
SampleProfiles(bs) ==
    {[k \in 0..bs |-> Fin(k)],
     [k \in 0..bs |-> Fin(bs - k)],
     [k \in 0..bs |-> Fin(k % 2)],
     [k \in 0..bs |-> IF k = 0 THEN Fin(ExpMaxArg + 1) ELSE Fin(0)]}

\* draws explored in the batches run by sample
SampleDraws(bs) == {[m \in 1..bs |-> u] : u \in {0, 999}}

\* lines 206-228
Plan ==
    /\ pc = "plan"
    /\ LET e == PlanError(target_length, sample_interval) IN
       /\ err' = e
       /\ pc' = IF e = "none" THEN "loop" ELSE "error"
       /\ IF e = "none"
          THEN /\ dec_samp_per_batch' = DecSampPerBatch(target_length, sample_interval)
               /\ batch_size' = BatchSize(target_length, sample_interval)
               /\ Nbatches' = NumBatches(target_length, dec_samp_per_batch')
               /\ actual_length' = dec_samp_per_batch' * Nbatches'
               /\ decorrelated_chain' = Empty(actual_length')
               /\ writes' = [k \in 0..(actual_length' - 1) |-> 0]
          ELSE UNCHANGED <<dec_samp_per_batch, batch_size, Nbatches,
                           actual_length, decorrelated_chain, writes>>
    /\ accepted' = 0
    /\ batch' = 0
    /\ UNCHANGED <<current_state, phi, log_ratio, history, chain_indices,
                   i, j, condition, us, chain>>
    /\ UNCHANGED <<autoVars, sample_interval, target_length, raw>>

\* lines 231-244: one batch
Batch ==
    /\ pc = "loop"
    /\ batch < Nbatches
    /\ \E lr \in SampleProfiles(batch_size), useq \in SampleDraws(batch_size) :
          LET r == SampleBatch(batch_size, current_state, batch, lr, useq)
              start == batch * dec_samp_per_batch
              rows == Stride(r.chain, sample_interval)
              e == IF r.err # "none" THEN r.err
                   ELSE IF PyLen(r.chain) = 0 THEN "IndexError"
                   ELSE IF PyLen(rows) # SliceLen(decorrelated_chain, start,
                                                  dec_samp_per_batch)
                        THEN "RuntimeError"
                   ELSE "none"
          IN /\ err' = e
             /\ pc' = IF e = "none" THEN "loop" ELSE "error"
             /\ IF e = "none"
                THEN /\ phi' = r.phi
                     /\ log_ratio' = lr
                     /\ chain_indices' = r.chain_indices
                     /\ history' = r.history
                     /\ chain' = r.chain
                     /\ current_state' = r.chain[PyLen(r.chain) - 1]
                     /\ accepted' = accepted + CountTrue(r.history)
                     /\ decorrelated_chain' =
                           SliceAssign(decorrelated_chain, start,
                                       dec_samp_per_batch, rows)
                     /\ raw' = Concat(raw, r.chain)
                     /\ writes' =
                           [k \in DOMAIN writes |->
                               IF start <= k /\ k < start + dec_samp_per_batch
                               THEN writes[k] + 1 ELSE writes[k]]
                     /\ batch' = batch + 1
                ELSE UNCHANGED <<phi, log_ratio, chain_indices, history, chain,
                                 current_state, accepted, decorrelated_chain,
                                 raw, writes, batch>>
    /\ UNCHANGED <<batch_size, i, j, condition, us>>
    /\ UNCHANGED <<autoVars, sample_interval, target_length,
                   dec_samp_per_batch, Nbatches, actual_length>>

\* lines 246-253
Finish ==
    /\ pc = "loop"
    /\ batch >= Nbatches
    /\ LET e == IF batch = 0 /\ Nbatches * batch_size = 0
                THEN "ZeroDivisionError" ELSE "none"
       IN /\ err' = e
          /\ pc' = IF e = "none" THEN "sample_returned" ELSE "error"
    /\ UNCHANGED <<batchVars, autoVars, sample_interval, sampleVars>>

InitSample ==
    /\ pc = "plan"
    /\ err = "none"
    /\ batch_size = 0
    /\ current_state = Thermalised
    /\ BatchIdle
    /\ AutoIdle
    /\ sample_interval \in -2..MaxInterval
    /\ target_length \in -2..MaxTarget
    /\ dec_samp_per_batch = 0
    /\ Nbatches = 0
    /\ actual_length = 0
    /\ decorrelated_chain = <<>>
    /\ accepted = 0
    /\ batch = 0
    /\ raw = <<>>
    /\ writes = <<>>

NextSample == Plan \/ Batch \/ Finish

SpecSample == InitSample /\ [][NextSample]_vars

\* line 233 without the batch itself: batches of about 10000 proposals are not
\* walked, only the argument of the call and the loop counter are followed
BatchArguments ==
    /\ pc = "loop"
    /\ batch < Nbatches
    /\ batch' = batch + 1
    /\ UNCHANGED <<pc, err, batchVars, autoVars, sample_interval,
                   target_length, dec_samp_per_batch, Nbatches, actual_length,
                   decorrelated_chain, accepted, raw, writes>>

\* target lengths around the batch size of line 214
PlanTargets == (1..MaxTarget) \cup {100, max_batch - 1, max_batch,
                                   max_batch + 1, 2 * max_batch + 1}

PlanIntervals == (1..MaxInterval) \cup {7}

InitPlan ==
    /\ pc = "plan"
    /\ err = "none"
    /\ batch_size = 0
    /\ current_state = Thermalised
    /\ BatchIdle
    /\ AutoIdle
    /\ sample_interval \in PlanIntervals
    /\ target_length \in PlanTargets
    /\ dec_samp_per_batch = 0
    /\ Nbatches = 0
    /\ actual_length = 0
    /\ decorrelated_chain = <<>>
    /\ accepted = 0
    /\ batch = 0
    /\ raw = <<>>
    /\ writes = <<>>

NextPlan == Plan \/ BatchArguments \/ Finish

SpecPlan == InitPlan /\ [][NextPlan]_vars

---------------------------------------------------------------------------
(* Properties of sample_batch *)

\* proposals the walk has decided so far
Decided == 1..(j - 1)

\* the cursor i at the start of the iteration for proposal m
CursorBefore(m) == IF m = 1 THEN 0 ELSE chain_indices[m - 2]

StrictlyIncreasing(lr) == \A k \in DOMAIN lr : k >= 1 => Lt(lr[k - 1], lr[k])

StrictlyDecreasing(lr) == \A k \in DOMAIN lr : k >= 1 => Lt(lr[k], lr[k - 1])

AllAccepted ==
    \A k \in 0..(batch_size - 1) : history[k] = TRUE /\ chain[k] = phi[k + 1]

AllRejected ==
    \A k \in 0..(batch_size - 1) : history[k] = FALSE /\ chain[k] = phi[0]

\* C1 as stated: a proposal whose log_ratio is at least the current one's is
\* accepted whatever the draw, and a strictly increasing log_ratio gives an
\* all-true history and the chain of candidates 1..batch_size.
C1_AcceptWhenNotLower ==
    /\ \A m \in Decided :
          Le(log_ratio[CursorBefore(m)], log_ratio[m])
             => history[m - 1] = TRUE /\ chain_indices[m - 1] = m
    /\ (pc = "returned" /\ StrictlyIncreasing(log_ratio)) => AllAccepted

\* C1 amended: a decided proposal whose log_ratio is at most the current
\* one's had condition = 1 and was accepted whatever the draw, and a call
\* that returns on a strictly decreasing log_ratio gives an all-true history
\* and the chain of candidates 1..batch_size.
C1_AcceptWhenNotHigher ==
    /\ \A m \in Decided :
          Le(log_ratio[m], log_ratio[CursorBefore(m)])
             => history[m - 1] = TRUE /\ chain_indices[m - 1] = m
    /\ (j - 1 \in Decided /\ Le(log_ratio[j - 1], log_ratio[CursorBefore(j - 1)]))
          => condition = One
    /\ (pc = "returned" /\ StrictlyDecreasing(log_ratio)) => AllAccepted

C1_Witness ==
    /\ pc = "returned"
    /\ batch_size >= 2
    /\ StrictlyDecreasing(log_ratio)
    /\ \A m \in 1..batch_size : us[m] = 999
    /\ AllAccepted

\* C2 as stated: on a strictly decreasing log_ratio every proposal is
\* rejected whatever the draws.
C2_DecreasingAllRejected ==
    (pc = "returned" /\ StrictlyDecreasing(log_ratio)) => AllRejected

\* C2 amended: on a strictly increasing log_ratio, when every draw exceeds
\* exp(log_ratio[0] - log_ratio[j]), every proposal is rejected: the history
\* is all false and every chain entry is candidate 0.
C2_IncreasingAllRejected ==
    (/\ pc = "returned"
     /\ StrictlyIncreasing(log_ratio)
     /\ \A m \in 1..batch_size :
           us[m] > ExpFix(log_ratio[0].v - log_ratio[m].v))
       => AllRejected

C2_Witness ==
    /\ pc = "returned"
    /\ batch_size >= 2
    /\ StrictlyIncreasing(log_ratio)
    /\ \A m \in 1..batch_size : us[m] > ExpFix(log_ratio[0].v - log_ratio[m].v)
    /\ AllRejected

\* C5: a call that returns had batch_size >= 0 and returns a chain and a
\* history of exactly batch_size entries, both empty for batch_size = 0.
C5_Lengths ==
    pc = "returned" =>
       /\ batch_size >= 0
       /\ PyLen(chain) = batch_size
       /\ PyLen(history) = batch_size
       /\ DOMAIN chain = 0..(batch_size - 1)
       /\ batch_size = 0 => (chain = <<>> /\ history = <<>>)

C5_Witness ==
    /\ pc = "returned"
    /\ batch_size >= 2
    /\ current_state # None
    /\ \E k \in DOMAIN history : history[k]
    /\ \E k \in DOMAIN history : ~history[k]

C5_WitnessEmpty ==
    pc = "returned" /\ batch_size = 0 /\ chain = <<>> /\ history = <<>>

---------------------------------------------------------------------------
(* Properties of chain_autocorrelation *)

\* the scan and the final flush are over
Scanned == pc \in {"integrate", "interval", "auto_returned"}

Rejections(a, b) == \A k \in a..b : history[k] = FALSE

\* maximal runs of consecutive rejections, as <<first, last>>
MaximalRuns ==
    {r \in (0..(N - 1)) \X (0..(N - 1)) :
        /\ r[1] <= r[2]
        /\ Rejections(r[1], r[2])
        /\ (r[1] = 0 \/ history[r[1] - 1] = TRUE)
        /\ (r[2] = N - 1 \/ history[r[2] + 1] = TRUE)}

RECURSIVE RunSum(_, _)
\* sum of (L - tau + 1) over the runs of S of length L >= tau
RunSum(S, tau) ==
    IF S = {} THEN 0
    ELSE LET r == CHOOSE x \in S : TRUE
             L == r[2] - r[1] + 1
         IN (IF L >= tau THEN L - tau + 1 ELSE 0) + RunSum(S \ {r}, tau)

\* number of windows of tau consecutive rejections
Windows(tau) ==
    Cardinality({a \in 0..(N - tau) : Rejections(a, a + tau - 1)})

\* C7: the interval chain_autocorrelation returns is an integer >= 1, and the
\* integrated autocorrelation it comes from is at least 0.5.
C7_IntervalAtLeastOne ==
    pc = "auto_returned" =>
       /\ sample_interval \in Int
       /\ sample_interval >= 1
       /\ RatLe(Half, integrated_autocorrelation)

C7_Witness ==
    /\ pc = "auto_returned"
    /\ N >= 2
    /\ \A k \in DOMAIN history : history[k] = TRUE
    /\ sample_interval = 1

C7_WitnessAllRejected ==
    /\ pc = "auto_returned"
    /\ N >= 2
    /\ \A k \in DOMAIN history : history[k] = FALSE
    /\ sample_interval = 2 * N + 1

\* C8 as stated: rho[tau] = autocorrelations[tau] / (N - tau) for tau = 1..N
\* and tau_int = 0.5 + the sum of rho[tau] over tau = 1..N.
C8_NormalisedByNMinusTau ==
    pc \in {"interval", "auto_returned"} =>
       /\ \A tau \in 1..N :
             rho[tau][1] * (N - tau) = autocorrelations[tau] * rho[tau][2]
       /\ RatEq(integrated_autocorrelation,
                RatAdd(Half, RatSumFrom(rho, 1)))

\* C9: after the scan autocorrelations[tau], tau = 1..N, is the sum of
\* (L - tau + 1) over the maximal rejection runs of length L >= tau, which is
\* the number of windows of tau consecutive rejections; autocorrelations[0]
\* stays 0.
C9_AccumulatorCountsWindows ==
    Scanned =>
       /\ \A tau \in 1..N :
             /\ autocorrelations[tau] = RunSum(MaximalRuns, tau)
             /\ autocorrelations[tau] = Windows(tau)
       /\ autocorrelations[0] = 0

C9_Witness ==
    /\ Scanned
    /\ N = 5
    /\ history = [k \in 0..4 |-> k \in {0, 3}]
    /\ autocorrelations[1] = 3
    /\ autocorrelations[2] = 1
    /\ autocorrelations[3] = 0

---------------------------------------------------------------------------
(* Properties of sample *)

ValidArguments == target_length >= 1 /\ sample_interval >= 1

\* sample has called sample_batch at least once
Called == pc \in {"loop", "sample_returned"} /\ batch >= 1

\* C3 as stated: every call of sample_batch has batch_size <= 10000.
C3_BatchWithinMaximum ==
    (ValidArguments /\ Called) => batch_size <= max_batch

\* C3 amended: every call of sample_batch has the batch_size that is the
\* smallest multiple of sample_interval not below min(target_length, 10000),
\* so at most min(target_length, 10000) + sample_interval - 1.
C3_BatchRoundedUp ==
    (ValidArguments /\ Called) =>
       /\ batch_size % sample_interval = 0
       /\ batch_size >= FirstBatchSize(target_length)
       /\ batch_size <= FirstBatchSize(target_length) + sample_interval - 1

C3_Witness ==
    /\ Called
    /\ target_length = max_batch
    /\ sample_interval = 3
    /\ batch_size = max_batch + 2

\* C4 as stated: a call of sample with target_length <= 0 or
\* sample_interval < 1 runs no batch and never returns a chain.
C4_InvalidArgumentsFail ==
    ~ValidArguments => (batch = 0 /\ pc # "sample_returned")

\* C6: actual_length is a multiple of dec_samp_per_batch, at least
\* target_length and at most target_length + dec_samp_per_batch - 1;
\* target_length = 100 and sample_interval = 7 give 15, 105, 7 and 105.
C6_ActualLength ==
    (ValidArguments /\ pc \in {"loop", "sample_returned"}) =>
       /\ dec_samp_per_batch >= 1
       /\ actual_length % dec_samp_per_batch = 0
       /\ actual_length >= target_length
       /\ actual_length - target_length <= dec_samp_per_batch - 1
       /\ (target_length = 100 /\ sample_interval = 7) =>
             /\ dec_samp_per_batch = 15
             /\ batch_size = 105
             /\ Nbatches = 7
             /\ actual_length = 105

C6_Witness ==
    /\ pc = "sample_returned"
    /\ target_length = 100
    /\ sample_interval = 7
    /\ actual_length = 105
    /\ batch = 7

\* the Metropolis-Hastings step whose configuration output position p takes
StepOf(p) ==
    (p \div dec_samp_per_batch) * batch_size
       + (p % dec_samp_per_batch) * sample_interval + 1

\* C10: with the steps of all batches numbered consecutively, output position
\* b * dec_samp_per_batch + k holds step b * batch_size + k * sample_interval
\* + 1, each batch starts from the last configuration of the one before,
\* consecutive output entries are sample_interval steps apart, and at the end
\* every output position has been written exactly once.
C10_OutputPositions ==
    (ValidArguments /\ pc \in {"loop", "sample_returned"}) =>
       /\ PyLen(raw) = batch * batch_size
       /\ DOMAIN decorrelated_chain = 0..(actual_length - 1)
       /\ \A b \in 0..(batch - 1) : \A k \in 0..(dec_samp_per_batch - 1) :
             /\ StepOf(b * dec_samp_per_batch + k)
                   = b * batch_size + k * sample_interval + 1
             /\ decorrelated_chain[b * dec_samp_per_batch + k]
                   = raw[b * batch_size + k * sample_interval]
       /\ \A p \in 0..(actual_length - 2) : StepOf(p + 1) - StepOf(p) = sample_interval
       /\ \A p \in 0..(actual_length - 1) :
             writes[p] = (IF p < batch * dec_samp_per_batch THEN 1 ELSE 0)
       /\ batch >= 1 =>
             /\ current_state = raw[batch * batch_size - 1]
             /\ phi[0] = (IF batch = 1 THEN Thermalised
                          ELSE raw[(batch - 1) * batch_size - 1])
       /\ pc = "sample_returned" =>
             /\ batch = Nbatches
             /\ \A p \in 0..(actual_length - 1) : writes[p] = 1

C10_Witness ==
    /\ pc = "sample_returned"
    /\ sample_interval >= 2
    /\ Nbatches >= 2
    /\ accepted = Nbatches * batch_size
    /\ \A p \in 0..(actual_length - 1) : writes[p] = 1

====
